---- MODULE Spec2Model ----
(***************************************************************************)
(* QUIC variable-length integers (src/src/lib.rs) and the random input of  *)
(* the benchmark (src/benches/varint.rs).                                  *)
(*                                                                         *)
(* Number representation.  TLC's integers are 32 bits wide, the program's  *)
(* are up to 64.  A u16, u32, u64 is held as the big-endian sequence of    *)
(* its 16-bit words (1, 2, 4 words); a u8 is a number in 0..255.  All      *)
(* arithmetic the code does on them (shift, or, and, compare, truncating   *)
(* cast, widening, to_be_bytes, from_be_bytes) is done word by word, so    *)
(* every width is exact.                                                   *)
(***************************************************************************)
EXTENDS Integers, Sequences, FiniteSets, TLC

\* ------------------------------------------------------------------ words

\* a word is two bytes
ByteMod == 2^8
WordMod == ByteMod * ByteMod
WordBits == 2 * 8

U16Words == 1
U32Words == 2
U64Words == 4

RECURSIVE BitOr(_, _)
\* a | b on naturals
BitOr(a, b) ==
    IF a = 0 THEN b
    ELSE IF b = 0 THEN a
    ELSE (IF (a % 2) + (b % 2) > 0 THEN 1 ELSE 0) + 2 * BitOr(a \div 2, b \div 2)

RECURSIVE BitAnd(_, _)
\* a & b on naturals
BitAnd(a, b) ==
    IF a = 0 \/ b = 0 THEN 0
    ELSE (IF (a % 2) + (b % 2) = 2 THEN 1 ELSE 0) + 2 * BitAnd(a \div 2, b \div 2)

\* a | b on two integers of the same width
OrWords(a, b) == [i \in 1..Len(a) |-> BitOr(a[i], b[i])]

\* k << s in an integer of n words; bits shifted past the top are dropped
Shl(k, s, n) ==
    LET j == s \div WordBits
        m == k * 2^(s % WordBits)
    IN  [i \in 1..n |->
            IF n - i = j THEN m % WordMod
            ELSE IF n - i = j + 1 THEN (m \div WordMod) % WordMod
            ELSE 0]

\* a < b on two integers of the same width
RECURSIVE LtFrom(_, _, _)
LtFrom(a, b, i) ==
    IF i > Len(a) THEN FALSE
    ELSE IF a[i] # b[i] THEN a[i] < b[i]
    ELSE LtFrom(a, b, i + 1)

Lt(a, b) == LtFrom(a, b, 1)
Le(a, b) == ~Lt(b, a)

\* `x as uN` to a narrower width: the low n words
Truncate(x, n) == SubSeq(x, Len(x) - n + 1, Len(x))
\* `x as u8`
AsU8(x) == x[Len(x)] % ByteMod
\* `x.into()` to a wider width: zero extension
Widen(x, n) == [i \in 1..(n - Len(x)) |-> 0] \o x
\* u8 to u64
U8ToU64(b) == Widen(<<b>>, U64Words)

\* 2u64.pow(k)
Pow2(k) == Shl(1, k, U64Words)

\* mutant of to_be_bytes: the bytes in little-endian order (to_le_bytes)
to_le_bytes(x) ==
    [i \in 1..(2 * Len(x)) |->
        IF i % 2 = 1 THEN x[Len(x) + 1 - ((i + 1) \div 2)] % ByteMod
        ELSE x[Len(x) + 1 - (i \div 2)] \div ByteMod]

\* n.to_be_bytes()
to_be_bytes(x) ==
    [i \in 1..(2 * Len(x)) |->
        IF i % 2 = 1 THEN x[(i + 1) \div 2] \div ByteMod
        ELSE x[i \div 2] % ByteMod]

\* uN::from_be_bytes(bytes), bytes of even length
from_be_bytes(bs) ==
    [i \in 1..(Len(bs) \div 2) |-> bs[2 * i - 1] * ByteMod + bs[2 * i]]

\* ---------------------------------------------------------------- results

\* Result<VarInt>: Ok(v), or Err(e) with e the error's kind
Ok(v) == [kind |-> "Ok", val |-> v]
Err(e) == [kind |-> e, val |-> <<>>]

\* Error::msg("VarInt bounds exceeded")
RangeError == "VarInt bounds exceeded"
\* bail!("Invalid VarInt tag")
TagError == "Invalid VarInt tag"
\* io::ErrorKind::UnexpectedEof of read_exact
UnexpectedEof == "UnexpectedEof"
\* io::ErrorKind::WriteZero of write_all
WriteZero == "WriteZero"
\* unreachable!("malformed VarInt")
Malformed == "malformed VarInt"

\* ----------------------------------------------------------------- VarInt

\* a VarInt is its inner u64

\* VarInt::MAX
MAX == [i \in 1..U64Words |-> IF i = 1 THEN 2^14 - 1 ELSE WordMod - 1]
\* VarInt::MAX_SIZE
MAX_SIZE == 8

\* VarInt::default()
Default == Widen(<<>>, U64Words)

\* From<u8>, From<u16>, From<u32> for VarInt
FromU8(b) == U8ToU64(b)
FromU16(x) == Widen(x, U64Words)
FromU32(x) == Widen(x, U64Words)

\* mutant of TryFromU64: no range check
TryFromU64_unchecked(x) == Ok(x)

\* mutant of TryFromU64: `<=` for `<`
TryFromU64_inclusive(x) ==
    IF Le(x, Pow2(62)) THEN Ok(x) ELSE Err(RangeError)

\* TryFrom<u64> for VarInt
TryFromU64(x) ==
    IF Lt(x, Pow2(62)) THEN Ok(x) ELSE Err(RangeError)

\* TryFrom<usize> for VarInt; a usize is 2 or 4 words wide, and its
\* conversion to u64 succeeds at either width
TryFromUsize(x) == TryFromU64(Widen(x, U64Words))

\* mutant of size: `<=` for `<` at the edges of the tiers
size_inclusive(x) ==
    IF Le(x, Pow2(6)) THEN 1
    ELSE IF Le(x, Pow2(14)) THEN 2
    ELSE IF Le(x, Pow2(30)) THEN 4
    ELSE IF Lt(x, Pow2(62)) THEN 8
    ELSE 0

\* VarInt::size; 0 stands for the panic of unreachable!
size(x) ==
    IF Lt(x, Pow2(6)) THEN 1
    ELSE IF Lt(x, Pow2(14)) THEN 2
    ELSE IF Lt(x, Pow2(30)) THEN 4
    ELSE IF Lt(x, Pow2(62)) THEN 8
    ELSE 0

\* mutant of encode_bytes: the 4-byte tier tagged 0b01
encode_bytes_tag(x) ==
    IF Lt(x, Pow2(6)) THEN Ok(<<AsU8(x)>>)
    ELSE IF Lt(x, Pow2(14)) THEN
        Ok(to_be_bytes(OrWords(Shl(1, 14, U16Words), Truncate(x, U16Words))))
    ELSE IF Lt(x, Pow2(30)) THEN
        Ok(to_be_bytes(OrWords(Shl(1, 30, U32Words), Truncate(x, U32Words))))
    ELSE IF Lt(x, Pow2(62)) THEN
        Ok(to_be_bytes(OrWords(Shl(3, 62, U64Words), x)))
    ELSE Err(Malformed)

\* the bytes VarInt::encode hands to write_all; <<>> with Malformed for the
\* unreachable! branch
encode_bytes(x) ==
    IF Lt(x, Pow2(6)) THEN Ok(<<AsU8(x)>>)
    ELSE IF Lt(x, Pow2(14)) THEN
        Ok(to_be_bytes(OrWords(Shl(1, 14, U16Words), Truncate(x, U16Words))))
    ELSE IF Lt(x, Pow2(30)) THEN
        Ok(to_be_bytes(OrWords(Shl(2, 30, U32Words), Truncate(x, U32Words))))
    ELSE IF Lt(x, Pow2(62)) THEN
        Ok(to_be_bytes(OrWords(Shl(3, 62, U64Words), x)))
    ELSE Err(Malformed)

\* mutant of encoded_size: the tag plus one, not two to the tag
encoded_size_linear(first) == 1 + (first \div 2^6)

\* VarInt::encoded_size
encoded_size(first) == 2^(first \div 2^6)

\* --------------------------------------------------------------------- I/O

\* A sink (W: Write).  Vec<u8> grows without limit; a `&mut [u8]` of
\* `room` bytes takes what fits and then reports WriteZero.
VecSink == [data |-> <<>>, vec |-> TRUE, room |-> 0, clean |-> TRUE]
SliceSink(n) == [data |-> <<>>, vec |-> FALSE, room |-> n, clean |-> TRUE]

\* writer.write_all(bytes): the result and the sink afterwards
write_all(w, bs) ==
    IF w.vec THEN
        [res |-> Ok(<<>>), w |-> [w EXCEPT !.data = @ \o bs]]
    ELSE IF Len(bs) <= w.room THEN
        [res |-> Ok(<<>>),
         w |-> [w EXCEPT !.data = @ \o bs, !.room = @ - Len(bs)]]
    ELSE
        [res |-> Err(WriteZero),
         w |-> [w EXCEPT !.data = @ \o SubSeq(bs, 1, w.room), !.room = 0,
                         !.clean = FALSE]]

\* VarInt::encode
encode(x, w) ==
    LET b == encode_bytes(x)
    IN  IF b.kind = "Ok" THEN write_all(w, b.val)
        ELSE [res |-> b, w |-> w]

\* mutant of read_exact: a single read, which a short source satisfies,
\* the rest of the buffer staying zero
read_short(r, n) ==
    IF Len(r) >= n THEN
        {[ok |-> TRUE, got |-> SubSeq(r, 1, n), rest |-> SubSeq(r, n + 1, Len(r))]}
    ELSE
        {[ok |-> TRUE, got |-> r \o [i \in 1..(n - Len(r)) |-> 0], rest |-> <<>>]}

\* reader.read_exact(&mut buf[..n]) on a source holding the bytes r: the
\* possible outcomes.  A short source gives UnexpectedEof; how much of the
\* source is then consumed is not specified by Read, and differs between
\* implementations of it (nothing, or all that was left).
read_exact(r, n) ==
    IF Len(r) >= n THEN
        {[ok |-> TRUE, got |-> SubSeq(r, 1, n), rest |-> SubSeq(r, n + 1, Len(r))]}
    ELSE
        {[ok |-> FALSE, got |-> <<>>, rest |-> q] : q \in {r, <<>>}}

\* the match of VarInt::decode on num_bytes, after the first byte was read
\* and masked: buf holds the num_bytes bytes read
decode_convert(num_bytes, buf) ==
    IF num_bytes = 1 THEN Ok(FromU8(buf[1]))
    ELSE IF num_bytes = 2 THEN Ok(FromU16(from_be_bytes(buf)))
    ELSE IF num_bytes = 4 THEN Ok(FromU32(from_be_bytes(buf)))
    ELSE IF num_bytes = 8 THEN TryFromU64(from_be_bytes(buf))
    ELSE Err(TagError)

\* mutant of mask_tag: no mask
mask_tag_none(first) == first

\* mutant of mask_tag: a mask one bit too wide
mask_tag_wide(first) == BitAnd(first, 2^7 - 1)

\* buf[0] &= 0b0011_1111
mask_tag(first) == BitAnd(first, 2^6 - 1)

\* VarInt::decode on a source holding the bytes r: the possible outcomes,
\* each the result, what is left of the source, and buf as it stood when
\* decode returned (the bytes read, the first one masked)
decode(r) ==
    UNION {
        IF ~o1.ok THEN {[res |-> Err(UnexpectedEof), rest |-> o1.rest, buf |-> <<>>]}
        ELSE
            LET num_bytes == encoded_size(o1.got[1])
                b0 == mask_tag(o1.got[1])
            IN  IF num_bytes \in {2, 4, 8} THEN
                    {IF o2.ok
                        THEN [res |-> decode_convert(num_bytes, <<b0>> \o o2.got),
                              rest |-> o2.rest, buf |-> <<b0>> \o o2.got]
                        ELSE [res |-> Err(UnexpectedEof), rest |-> o2.rest,
                              buf |-> <<b0>>]
                     : o2 \in read_exact(o1.rest, num_bytes - 1)}
                ELSE {[res |-> decode_convert(num_bytes, <<b0>>), rest |-> o1.rest,
                       buf |-> <<b0>>]}
        : o1 \in read_exact(r, 1)}

\* ------------------------------------------------------------------ inputs

\* how many VarInts a caller encodes into one sink
MaxStream == 2
\* how many bytes a caller-supplied source holds
MaxRawLen == 9

\* arguments of From<u8>, From<u16>, From<u32>
U8Samples == {0, 7, 2^6 - 1, 2^6, ByteMod - 1}
U16Samples == {<<300>>, <<2^14 - 1>>, <<2^14>>, <<WordMod - 1>>}
U32Samples == {<<2^14 - 1, WordMod - 1>>, <<2^14, 0>>, <<WordMod - 1, WordMod - 1>>}
\* arguments of TryFrom<u64>: around 2^32, 2^62 and 2^64
U64Samples ==
    {<<0, 1, 0, 0>>, MAX, Pow2(62), <<2^15, 0, 0, 0>>,
     [i \in 1..U64Words |-> WordMod - 1]}
\* arguments of TryFrom<usize>, on a 32-bit and on a 64-bit target
UsizeSamples ==
    {<<0, 2^6>>, <<WordMod - 1, WordMod - 1>>, <<0, 0, 0, 7>>, MAX, Pow2(62)}

\* the VarInts the constructors make of these arguments
VarInts ==
    {Default}
    \cup {FromU8(b) : b \in U8Samples}
    \cup {FromU16(x) : x \in U16Samples}
    \cup {FromU32(x) : x \in U32Samples}
    \cup {TryFromU64(x).val : x \in {y \in U64Samples : TryFromU64(y).kind = "Ok"}}

\* all byte strings over B of length at most n
SeqsUpTo(B, n) == UNION {[1..k -> B] : k \in 0..n}

\* first bytes: each tag with its value bits all clear, mixed and all set
FirstBytes == {0, 7, 63, 64, 65, 127, 128, 191, 192, 255}
\* later bytes
TailBytes == {44, 255}
FillBytes == {255}

\* caller-supplied sources: the empty one, and a first byte followed by at
\* most n - 1 bytes of T
Sources(T, n) ==
    {<<>>} \cup {<<f>> \o t : f \in FirstBytes, t \in SeqsUpTo(T, n - 1)}

\* ------------------------------------------------------------------- state

VARIABLES
    made,       \* the last construction: its function, argument and result
    writer,     \* the sink the caller encodes into
    sent,       \* the VarInts encoded into writer, in order
    enc,        \* the last encode call: its VarInt, result and bytes written
    reader,     \* the source the caller decodes from: the bytes left in it
    origin,     \* what the source was made of
    dec,        \* the last decode call: the source before it, result, buf
    recv,       \* the VarInts decoded from the source, in order
    bench       \* the last benchmark setup

vars == <<made, writer, sent, enc, reader, origin, dec, recv, bench>>

NoMade == [op |-> "none", arg |-> <<>>, res |-> Err("none")]
NoEnc == [called |-> FALSE, x |-> <<>>, res |-> Err("none"), wrote |-> <<>>]
NoDec == [called |-> FALSE, src |-> <<>>, res |-> Err("none"), buf |-> <<>>]
NoOrigin == [kind |-> "none", vals |-> <<>>]
NoBench == [fn |-> "none", n |-> <<>>, setup |-> "none", x |-> <<>>,
            buf |-> <<>>, routine |-> "none"]

Init ==
    /\ made = NoMade
    /\ writer = VecSink
    /\ sent = <<>>
    /\ enc = NoEnc
    /\ reader = <<>>
    /\ origin = NoOrigin
    /\ dec = NoDec
    /\ recv = <<>>
    /\ bench = NoBench

\* ------------------------------------------------------------ construction

\* the caller's other state, which a construction leaves alone
rest_of_made == <<writer, sent, enc, reader, origin, dec, recv, bench>>

CallDefault ==
    /\ made' = [op |-> "default", arg |-> <<>>, res |-> Ok(Default)]
    /\ UNCHANGED rest_of_made

CallFromU8 ==
    /\ \E b \in U8Samples :
        made' = [op |-> "from_u8", arg |-> <<b>>, res |-> Ok(FromU8(b))]
    /\ UNCHANGED rest_of_made

CallFromU16 ==
    /\ \E x \in U16Samples :
        made' = [op |-> "from_u16", arg |-> x, res |-> Ok(FromU16(x))]
    /\ UNCHANGED rest_of_made

CallFromU32 ==
    /\ \E x \in U32Samples :
        made' = [op |-> "from_u32", arg |-> x, res |-> Ok(FromU32(x))]
    /\ UNCHANGED rest_of_made

CallTryFromU64 ==
    /\ \E x \in U64Samples :
        made' = [op |-> "try_from_u64", arg |-> x, res |-> TryFromU64(x)]
    /\ UNCHANGED rest_of_made

CallTryFromUsize ==
    /\ \E x \in UsizeSamples :
        made' = [op |-> "try_from_usize", arg |-> x, res |-> TryFromUsize(x)]
    /\ UNCHANGED rest_of_made

\* ------------------------------------------------------------------ encode

\* the caller takes a fresh sink: a Vec, or a [0u8; 8]
NewSink ==
    /\ \E w \in {VecSink, SliceSink(MAX_SIZE)} : writer' = w
    /\ sent' = <<>>
    /\ enc' = NoEnc
    /\ reader' = <<>>
    /\ origin' = NoOrigin
    /\ dec' = NoDec
    /\ recv' = <<>>
    /\ UNCHANGED <<made, bench>>

\* x.encode(&mut writer), while the sink is being filled
Encode ==
    /\ origin.kind = "none"
    /\ Len(sent) < MaxStream
    /\ \E x \in VarInts :
        LET o == encode(x, writer)
        IN  /\ writer' = o.w
            /\ enc' = [called |-> TRUE, x |-> x, res |-> o.res,
                       wrote |-> SubSeq(o.w.data, Len(writer.data) + 1, Len(o.w.data))]
            /\ sent' = IF o.res.kind = "Ok" THEN Append(sent, x) ELSE sent
    /\ UNCHANGED <<made, reader, origin, dec, recv, bench>>

\* the bytes written become the source: decode(&buf[..])
ReadBack ==
    /\ origin.kind = "none"
    /\ enc.called
    /\ reader' = writer.data
    /\ origin' = [kind |-> IF writer.clean THEN "stream" ELSE "torn", vals |-> sent]
    /\ recv' = <<>>
    /\ dec' = NoDec
    /\ UNCHANGED <<made, writer, sent, enc, bench>>

\* ------------------------------------------------------------------ decode

\* the caller supplies a source of its own
LoadFill ==
    /\ \E bs \in Sources(FillBytes, MaxRawLen) : reader' = bs
    /\ origin' = [kind |-> "bytes", vals |-> <<>>]
    /\ recv' = <<>>
    /\ dec' = NoDec
    /\ UNCHANGED <<made, writer, sent, enc, bench>>

\* VarInt::decode(&mut reader)
Decode ==
    /\ origin.kind # "none"
    /\ \E o \in decode(reader) :
        /\ reader' = o.rest
        /\ dec' = [called |-> TRUE, src |-> reader, res |-> o.res, buf |-> o.buf]
        /\ recv' = IF o.res.kind = "Ok" THEN Append(recv, o.res.val) ELSE recv
    /\ UNCHANGED <<made, writer, sent, enc, origin, bench>>

\* ---------------------------------------------------------- specifications

\* construction, and decoding of caller-supplied bytes
Next ==
    \/ CallDefault
    \/ CallFromU8
    \/ CallFromU16
    \/ CallFromU32
    \/ CallTryFromU64
    \/ CallTryFromUsize
    \/ LoadFill
    \/ Decode

Spec == Init /\ [][Next]_vars

\* a sink filled by encode and read back by decode
NextStream ==
    \/ NewSink
    \/ Encode
    \/ ReadBack
    \/ Decode

SpecStream == Init /\ [][NextStream]_vars

\* decode on every source of Sources(TailBytes, MaxRawLen)
InitRaw ==
    /\ made = NoMade
    /\ writer = VecSink
    /\ sent = <<>>
    /\ enc = NoEnc
    /\ reader \in Sources(TailBytes, MaxRawLen)
    /\ origin = [kind |-> "bytes", vals |-> <<>>]
    /\ dec = NoDec
    /\ recv = <<>>
    /\ bench = NoBench

SpecRaw == InitRaw /\ [][Decode]_vars

\* --------------------------------------------------------------- benchmark

\* what rand::random::<u64>() is drawn from here: every u64 whose words
\* are all clear, all set, or at the 2^62 boundary
RandomU64 == [1..U64Words -> {0, 2^14 - 1, 2^14, WordMod - 1}]

\* rand_u62: the values its loop can return
rand_u62 == {n \in RandomU64 : Le(n, Pow2(62))}

\* a panic ends the benchmark process
BenchAlive == bench.setup # "panic" /\ bench.routine # "panic"

rest_of_bench == <<made, writer, sent, enc, reader, origin, dec, recv>>

\* setup of the quic encoding benchmark
BenchEncodeSetup ==
    /\ BenchAlive
    /\ \E n \in rand_u62 :
        LET r == TryFromU64(n)
        IN  bench' = [fn |-> "encode", n |-> n,
                      setup |-> IF r.kind = "Ok" THEN "ready" ELSE "panic",
                      x |-> r.val, buf |-> <<>>, routine |-> "none"]
    /\ UNCHANGED rest_of_bench

\* its routine: n.encode(&mut buf[..]).unwrap() on a [0u8; 8]
BenchEncodeRoutine ==
    /\ bench.fn = "encode" /\ bench.setup = "ready" /\ bench.routine = "none"
    /\ LET o == encode(bench.x, SliceSink(MAX_SIZE))
       IN  bench' = [bench EXCEPT !.buf = o.w.data,
                       !.routine = IF o.res.kind = "Ok" THEN "Ok" ELSE "panic"]
    /\ UNCHANGED rest_of_bench

\* setup of the quic decoding benchmark
BenchDecodeSetup ==
    /\ BenchAlive
    /\ \E n \in rand_u62 :
        LET r == TryFromU64(n)
            o == encode(r.val, VecSink)
        IN  bench' =
                IF r.kind # "Ok" THEN
                    [fn |-> "decode", n |-> n, setup |-> "panic", x |-> <<>>,
                     buf |-> <<>>, routine |-> "none"]
                ELSE
                    [fn |-> "decode", n |-> n,
                     setup |-> IF o.res.kind = "Ok" THEN "ready" ELSE "panic",
                     x |-> r.val, buf |-> o.w.data, routine |-> "none"]
    /\ UNCHANGED rest_of_bench

\* its routine: VarInt::decode(&buf[..]).unwrap()
BenchDecodeRoutine ==
    /\ bench.fn = "decode" /\ bench.setup = "ready" /\ bench.routine = "none"
    /\ \E o \in decode(bench.buf) :
        bench' = [bench EXCEPT
                    !.routine = IF o.res.kind = "Ok" THEN "Ok" ELSE "panic"]
    /\ UNCHANGED rest_of_bench

NextBench ==
    \/ BenchEncodeSetup
    \/ BenchEncodeRoutine
    \/ BenchDecodeSetup
    \/ BenchDecodeRoutine

SpecBench == Init /\ [][NextBench]_vars

\* ------------------------------------------------- the values, bit by bit

\* the bits, most significant first, of a sequence of numbers of w bits each
BitsOf(ns, w) ==
    [i \in 1..(w * Len(ns)) |->
        (ns[((i - 1) \div w) + 1] \div 2^(w - 1 - ((i - 1) % w))) % 2]

\* the 16 * Len(x) bits of an integer, the 8 * Len(bs) bits of a byte string
WordsBits(x) == BitsOf(x, 16)
BytesBits(bs) == BitsOf(bs, 8)

Zeros(n) == [i \in 1..n |-> 0]

\* the 64 bits of an integer of any width
Bits64(x) == Zeros(64 - 16 * Len(x)) \o WordsBits(x)

\* how many of the 64 bits of x are zero before its first one
LeadingZeros(x) ==
    LET b == Bits64(x)
        ones == {i \in 1..64 : b[i] = 1}
    IN  IF ones = {} THEN 64 ELSE (CHOOSE i \in ones : \A j \in ones : i <= j) - 1

\* x < 2^k
Below(x, k) == LeadingZeros(x) >= 64 - k

RECURSIVE Flatten(_)
Flatten(ss) == IF ss = <<>> THEN <<>> ELSE Head(ss) \o Flatten(Tail(ss))

\* the size of the range table: 1, 2, 4, 8 bytes for values below 2^6,
\* 2^14, 2^30, 2^62
Tier(x) ==
    LET z == LeadingZeros(x)
    IN  IF z >= 64 - 6 THEN 1
        ELSE IF z >= 64 - 14 THEN 2
        ELSE IF z >= 64 - 30 THEN 4
        ELSE IF z >= 64 - 62 THEN 8
        ELSE 0

\* the tag of a tier of n bytes
Tag(n) ==
    IF n = 1 THEN <<0, 0>>
    ELSE IF n = 2 THEN <<0, 1>>
    ELSE IF n = 4 THEN <<1, 0>>
    ELSE <<1, 1>>

\* the u64 of a small number
Num(n) == <<0, 0, n \div 2^16, n % 2^16>>

\* the encodings of a sequence of VarInts, one after another
StreamBytes(vals) == Flatten([i \in 1..Len(vals) |-> encode_bytes(vals[i]).val])

\* the bytes the last decode call consumed
Consumed == Len(dec.src) - Len(reader)

\* ------------------------------------------------------------------ claims

\* C1. Round trip: a VarInt v encoded to an empty sink and decoded from the
\* bytes written comes back: decode succeeds and returns v.
C1_RoundTrip ==
    (/\ origin.kind = "stream"
     /\ Len(origin.vals) = 1
     /\ dec.called
     /\ dec.src # <<>>)
    => dec.res = Ok(origin.vals[1])

C1_Witness ==
    /\ origin = [kind |-> "stream", vals |-> <<MAX>>]
    /\ dec.called
    /\ Len(dec.src) = 8
    /\ dec.res = Ok(MAX)

\* the sizes spec.md gives for the values at the edges of the tiers
BoundarySizes ==
    {<<Num(63), 1>>, <<Num(64), 2>>, <<Num(16383), 2>>, <<Num(16384), 4>>,
     <<Num(1073741823), 4>>, <<Num(1073741824), 8>>}

\* C2. Canonical size: size(v) is the size of the range table, and a
\* successful encode(v) writes exactly size(v) bytes; 63 takes 1 byte, 64
\* and 16383 take 2, 16384 and 1073741823 take 4, 1073741824 takes 8.
C2_CanonicalSize ==
    enc.called =>
        /\ size(enc.x) \in {1, 2, 4, 8}
        /\ size(enc.x) = Tier(enc.x)
        /\ enc.res.kind = "Ok" => Len(enc.wrote) = size(enc.x)
        /\ \A p \in BoundarySizes :
            (enc.x = p[1] /\ enc.res.kind = "Ok") => Len(enc.wrote) = p[2]

C2_Witness ==
    /\ enc.called
    /\ enc.x = Num(1073741824)
    /\ enc.res.kind = "Ok"
    /\ Len(enc.wrote) = 8

\* C3. Wire format: the bytes encode(v) writes are, in size(v) bytes, the
\* tag of the tier in the two most significant bits followed by the value
\* in the remaining bits, most significant first; the first byte gives the
\* length back through encoded_size; encode(7) = [0x07], encode(300) =
\* [0x41, 0x2C].
C3_WireFormat ==
    (enc.called /\ enc.res.kind = "Ok") =>
        LET n == Len(enc.wrote)
            wire == BytesBits(enc.wrote)
            value == Bits64(enc.x)
        IN  /\ n = Tier(enc.x)
            /\ SubSeq(wire, 1, 2) = Tag(n)
            /\ SubSeq(wire, 3, 8 * n) = SubSeq(value, 64 - 8 * n + 3, 64)
            /\ SubSeq(value, 1, 64 - 8 * n + 2) = Zeros(64 - 8 * n + 2)
            /\ encoded_size(enc.wrote[1]) = size(enc.x)
            /\ enc.x = Num(7) => enc.wrote = <<7>>
            /\ enc.x = Num(300) => enc.wrote = <<65, 44>>

C3_Witness ==
    /\ enc.called
    /\ enc.res.kind = "Ok"
    /\ enc.x = Num(300)
    /\ enc.wrote = <<65, 44>>

\* every VarInt the caller holds
Held ==
    {r.val : r \in {q \in {made.res, dec.res} : q.kind = "Ok"}}
    \cup {recv[i] : i \in 1..Len(recv)}

\* C4. Range invariant: after any sequence of constructions and of decode
\* calls on arbitrary bytes, every VarInt there is holds a value of at most
\* 2^62 - 1, so size and encode do not reach their unreachable! branch on it.
C4_RangeInvariant ==
    \A v \in Held :
        /\ Len(v) = U64Words
        /\ Below(v, 62)
        /\ size(v) \in {1, 2, 4, 8}
        /\ encode_bytes(v).kind = "Ok"

C4_Witness ==
    /\ made.op = "try_from_usize"
    /\ made.res = Ok(MAX)
    /\ dec.called
    /\ Len(dec.src) = 9
    /\ dec.res = Ok(MAX)
    /\ Held = {MAX}

\* C5. Range rejection: try_from of a u64 or of a usize x succeeds, with a
\* VarInt of value x, if and only if x < 2^62, and is a range error without
\* a VarInt otherwise.
C5_RangeRejection ==
    made.op \in {"try_from_u64", "try_from_usize"} =>
        IF Below(made.arg, 62)
            THEN /\ made.res.kind = "Ok"
                 /\ Len(made.res.val) = U64Words
                 /\ Bits64(made.res.val) = Bits64(made.arg)
            ELSE made.res = Err(RangeError)

C5_Witness ==
    /\ made.op = "try_from_u64"
    /\ made.arg = <<16384, 0, 0, 0>>
    /\ made.res.kind = RangeError

\* C6. Short read: on a source that holds fewer bytes than the first byte's
\* tag asks for (the empty source too) decode is an I/O error, and decode
\* returns a value only after reading all of these bytes.
C6_ShortRead ==
    dec.called =>
        LET need == IF dec.src = <<>> THEN 1 ELSE encoded_size(dec.src[1])
        IN  /\ Len(dec.src) < need => dec.res = Err(UnexpectedEof)
            /\ dec.res.kind = "Ok" =>
                /\ Len(dec.src) >= need
                /\ Consumed = need
                /\ Len(dec.buf) = need

C6_Witness ==
    /\ dec.called
    /\ Len(dec.src) = 7
    /\ dec.src[1] = 255
    /\ dec.res = Err(UnexpectedEof)

\* the decode call read the eight bytes of the 8-byte tier
Read8 == dec.called /\ Len(dec.buf) = 8

\* C7 as written: in the 8-byte tier the integer handed to the range-checked
\* conversion has the tag bits of the first byte as its top two bits, so it
\* exceeds 2^62 - 1 and decode fails with a range error.
C7_TagBitsReachConversion ==
    Read8 =>
        /\ SubSeq(BytesBits(dec.buf), 1, 2) = SubSeq(BytesBits(dec.src), 1, 2)
        /\ dec.res = Err(RangeError)

\* C7, amended. In the 8-byte tier the integer handed to the range-checked
\* conversion has its top two bits clear, the mask having removed the tag
\* from the first byte: it is at most 2^62 - 1 whatever the input, the
\* conversion succeeds, and decode never ends in a range error.
C7_MaskedBeforeConversion ==
    /\ dec.res.kind # RangeError
    /\ Read8 =>
        /\ SubSeq(BytesBits(dec.src), 1, 2) = <<1, 1>>
        /\ SubSeq(BytesBits(dec.buf), 1, 2) = <<0, 0>>
        /\ SubSeq(BytesBits(dec.buf), 3, 64) = SubSeq(BytesBits(dec.src), 3, 64)
        /\ dec.res.kind = "Ok"
        /\ Bits64(dec.res.val) = BytesBits(dec.buf)

C7_Witness ==
    /\ Read8
    /\ SubSeq(dec.src, 1, 8) = [i \in 1..8 |-> 255]
    /\ dec.res = Ok(MAX)

\* C8 as written: when decode succeeds, consuming k bytes and returning v,
\* then k = size(v) and encode(v) writes exactly those k bytes.
C8_DecodeOnlyCanonical ==
    (dec.called /\ dec.res.kind = "Ok") =>
        /\ Consumed = size(dec.res.val)
        /\ encode_bytes(dec.res.val).val = SubSeq(dec.src, 1, Consumed)

\* C8, amended. When decode succeeds, consuming k bytes and returning v,
\* then k >= size(v), the k bytes hold v in the value bits of their tier,
\* and encode(v) writes exactly those k bytes if and only if k = size(v):
\* encode gives each VarInt one byte sequence, and decode also accepts a
\* value stored in a larger tier than its smallest.
C8_DecodeAnyTier ==
    (dec.called /\ dec.res.kind = "Ok") =>
        LET v == dec.res.val
            used == SubSeq(dec.src, 1, Consumed)
        IN  /\ Consumed \in {1, 2, 4, 8}
            /\ Consumed >= size(v)
            /\ SubSeq(BytesBits(used), 1, 2) = Tag(Consumed)
            /\ SubSeq(BytesBits(used), 3, 8 * Consumed)
                = SubSeq(Bits64(v), 64 - 8 * Consumed + 3, 64)
            /\ SubSeq(Bits64(v), 1, 64 - 8 * Consumed + 2)
                = Zeros(64 - 8 * Consumed + 2)
            /\ (encode_bytes(v).val = used) <=> (Consumed = size(v))

C8_Witness ==
    /\ dec.called
    /\ Len(dec.src) >= 2
    /\ SubSeq(dec.src, 1, 2) = <<64, 44>>
    /\ dec.res = Ok(Num(44))
    /\ Consumed = 2
    /\ size(dec.res.val) = 1

\* C9. Self-delimiting stream: of VarInts encoded one after another into one
\* sink, each decode call returns the next one, consumes the bytes of its
\* encoding (encoded_size of the first byte) and leaves the later bytes
\* unread; after as many calls as there are values the source is empty.
C9_SelfDelimiting ==
    origin.kind = "stream" =>
        /\ Len(recv) <= Len(origin.vals)
        /\ recv = SubSeq(origin.vals, 1, Len(recv))
        /\ reader = StreamBytes(SubSeq(origin.vals, Len(recv) + 1, Len(origin.vals)))
        /\ (dec.called /\ dec.src # <<>>) =>
            /\ dec.res.kind = "Ok"
            /\ Consumed = encoded_size(dec.src[1])
        /\ Len(recv) = Len(origin.vals) => reader = <<>>

C9_Witness ==
    /\ origin.kind = "stream"
    /\ origin.vals = <<Num(300), MAX>>
    /\ recv = origin.vals
    /\ reader = <<>>
    /\ Consumed = 8

\* C10. Benchmark input: every value rand_u62 returns is below 2^62, so the
\* try_from(n).unwrap() of the quic benchmarks' setup does not fail.
C10_BenchInputValid ==
    bench.fn # "none" =>
        /\ Below(bench.n, 62)
        /\ bench.setup # "panic"

====
